---- MODULE Spec2Model ----
(***************************************************************************)
(* The pipeline connection and validation engine of canals                 *)
(* (src/canals/pipeline/validation.py): connection-name parsing, socket    *)
(* matching, discovery of the pipeline's inputs and outputs, and the       *)
(* validation of the input values of a run.                                *)
(*                                                                         *)
(* Python values are modelled as follows.                                  *)
(*  - None and the empty string (both falsy) are "" where a name is        *)
(*    expected (taken_by).                                                 *)
(*  - A list (of sockets, of pairs) is a sequence; a dict is a function    *)
(*    together with the sequence of its keys where its order is read.      *)
(*  - An input value is a record [kind, atom, elems]: kind "int" / "str"   *)
(*    carry their literal in atom, kind "list" its items in elems.         *)
(***************************************************************************)
EXTENDS Integers, Sequences, FiniteSets, TLC

VARIABLES
    graph_nodes,    \* graph.nodes: component name -> node data (instance, sockets, variadic_input)
    node_order,     \* insertion order of graph.nodes (the order dict iteration follows)
    graph_edges,    \* graph.edges: set of [from_node, to_node, key], key the two socket names
    op,             \* the call in progress on the pipeline and its outcome
    pc,             \* "idle": the builder is about to make a call; "returned": it holds op's outcome
    args,           \* arguments of the function under test (specifications of pure functions)
    ret             \* its outcome

vars == <<graph_nodes, node_order, graph_edges, op, pc, args, ret>>

------------------------------------------------------------------------------
(* Bounds of the model *)

\* longest list of candidate sockets handed to find_unambiguous_connection
MaxSockets == 2
\* a run is validated on pipelines of at most this many edges
MaxRunEdges == 1
\* most (component, socket) entries of an input map
MaxEntries == 2
\* longest connection string handed to parse_connection_name
MaxStrLen == 4

------------------------------------------------------------------------------
(* Generic helpers *)

Range(s) == {s[i] : i \in 1..Len(s)}

\* the sequences over S of length at most n
SeqsUpTo(S, n) == UNION {[1..k -> S] : k \in 0..n}

\* position of the first TRUE of a sequence of booleans, 0 when there is none
FirstIndex(flags) ==
    IF \E i \in 1..Len(flags) : flags[i]
    THEN CHOOSE i \in 1..Len(flags) : flags[i] /\ \A j \in 1..(i - 1) : ~flags[j]
    ELSE 0

------------------------------------------------------------------------------
(* Sockets *)

Types == {"int", "str"}

\* canals.pipeline.sockets.OutputSocket
OutputSocket(name, type) == [name |-> name, type |-> type]

\* canals.pipeline.sockets.InputSocket; taken_by = "" is Python's None
InputSocket(name, type, taken_by) == [name |-> name, type |-> type, taken_by |-> taken_by]

------------------------------------------------------------------------------
(* find_unambiguous_connection *)

\* itertools.product(from_sockets, to_sockets): the pairs in row-major order
Product(from_sockets, to_sockets) ==
    [k \in 1..(Len(from_sockets) * Len(to_sockets)) |->
        << from_sockets[((k - 1) \div Len(to_sockets)) + 1],
           to_sockets[((k - 1) % Len(to_sockets)) + 1] >>]

\* the filter without its test of the types
PairAvailable_ignoring_types(pair) == pair[2].taken_by = ""

\* the filter without its test of taken_by
PairAvailable_ignoring_taken(pair) == pair[1].type = pair[2].type

\* the filter of the list comprehension: input not taken, types equal
PairAvailable(pair) == pair[2].taken_by = "" /\ pair[1].type = pair[2].type

possible_connections(from_sockets, to_sockets) ==
    SelectSeq(Product(from_sockets, to_sockets), PairAvailable)

NameMatch(pair) == pair[2].name = pair[1].name

name_matches(possible) == SelectSeq(possible, NameMatch)

ConnectOk(pair) == [kind |-> "ok", pair |-> pair]
ConnectErrorNoMatch == [kind |-> "no_match", pair |-> <<>>]
ConnectErrorAmbiguous == [kind |-> "ambiguous", pair |-> <<>>]

\* taking the first name match when there are several, and the first pair when the
\* only possible connection does not match by name
find_unambiguous_connection_any_name_match(from_node, to_node, from_sockets, to_sockets) ==
    LET possible == possible_connections(from_sockets, to_sockets)
    IN  IF Len(possible) = 0
        THEN ConnectErrorNoMatch
        ELSE IF Len(possible) > 1 /\ Len(name_matches(possible)) = 0
        THEN ConnectErrorAmbiguous
        ELSE ConnectOk(possible[1])

\* trying to match by name even when a single connection is possible
find_unambiguous_connection_always_by_name(from_node, to_node, from_sockets, to_sockets) ==
    LET possible == possible_connections(from_sockets, to_sockets)
    IN  IF Len(possible) = 0
        THEN ConnectErrorNoMatch
        ELSE IF Len(name_matches(possible)) # 1
        THEN ConnectErrorAmbiguous
        ELSE ConnectOk(possible[1])

find_unambiguous_connection(from_node, to_node, from_sockets, to_sockets) ==
    LET possible == possible_connections(from_sockets, to_sockets)
    IN  IF Len(possible) = 0
        THEN ConnectErrorNoMatch
        ELSE IF Len(possible) > 1 /\ Len(name_matches(possible)) # 1
        THEN ConnectErrorAmbiguous
        ELSE ConnectOk(possible[1])

------------------------------------------------------------------------------
(* Input values *)

IntV(lit) == [kind |-> "int", atom |-> lit, elems |-> <<>>]
StrV(lit) == [kind |-> "str", atom |-> lit, elems |-> <<>>]
ListV(items) == [kind |-> "list", atom |-> "", elems |-> items]

\* Python truthiness: 0, "" and [] are falsy
Truthy(v) ==
    CASE v.kind = "int" -> v.atom # "0"
      [] v.kind = "str" -> v.atom # ""
      [] v.kind = "list" -> v.elems # <<>>

\* isinstance(value, Iterable): lists and strings are, numbers are not
IsIterable(v) == v.kind \in {"str", "list"}

\* [value]
Wrap(v) == ListV(<<v>>)

\* the values a caller supplies in the model
Values == {IntV("0"), IntV("5"), StrV("ab"), ListV(<<IntV("1"), IntV("2")>>)}

------------------------------------------------------------------------------
(* Components registered with add_component: the sample components the     *)
(* tests wire together                                                     *)

\* AddFixedValue: run(value: int, add: int = default) -> result: int
AddFixedValue ==
    [instance |-> [defaults |-> {"add"}],
     input_sockets |-> <<InputSocket("value", "int", ""), InputSocket("add", "int", "")>>,
     output_sockets |-> <<OutputSocket("result", "int")>>,
     variadic_input |-> FALSE]

\* Parity: run(value: int) -> even: int, odd: int
Parity ==
    [instance |-> [defaults |-> {}],
     input_sockets |-> <<InputSocket("value", "int", "")>>,
     output_sockets |-> <<OutputSocket("even", "int"), OutputSocket("odd", "int")>>,
     variadic_input |-> FALSE]

\* Sum: run(*values: int) -> total: int
Sum ==
    [instance |-> [defaults |-> {}],
     input_sockets |-> <<InputSocket("values", "int", "")>>,
     output_sockets |-> <<OutputSocket("total", "int")>>,
     variadic_input |-> TRUE]

\* a component without input sockets: run() -> text: str
TextSource ==
    [instance |-> [defaults |-> {}],
     input_sockets |-> <<>>,
     output_sockets |-> <<OutputSocket("text", "str")>>,
     variadic_input |-> FALSE]

\* the add_component calls of the model, in the order they are made
ComponentNames == <<"add_one", "parity", "sum", "source">>

Catalogue ==
    [c \in Range(ComponentNames) |->
        CASE c = "add_one" -> AddFixedValue
          [] c = "parity" -> Parity
          [] c = "sum" -> Sum
          [] c = "source" -> TextSource]

IndexOf(c) == CHOOSE i \in 1..Len(ComponentNames) : ComponentNames[i] = c

SocketNames(sockets) == {sockets[i].name : i \in 1..Len(sockets)}

\* dict lookup by socket name: sockets.get(name)
SocketNamed(sockets, name) == sockets[CHOOSE i \in 1..Len(sockets) : sockets[i].name = name]

------------------------------------------------------------------------------
(* parse_connection_name: a connection string is the sequence of its       *)
(* characters; a name without dots counts as one character                 *)

RECURSIVE JoinStr(_)
\* the Python string of a sequence of characters
JoinStr(chars) == IF chars = <<>> THEN "" ELSE chars[1] \o JoinStr(Tail(chars))

\* splitting at the last separator (rsplit) instead of the first
parse_connection_name_at_last_dot(connection) ==
    IF \E i \in 1..Len(connection) : connection[i] = "."
    THEN LET dot == CHOOSE i \in 1..Len(connection) :
                        connection[i] = "."
                        /\ \A j \in (i + 1)..Len(connection) : connection[j] # "."
         IN  << SubSeq(connection, 1, dot - 1),
                << SubSeq(connection, dot + 1, Len(connection)) >> >>
    ELSE << connection, <<>> >>

\* returns <<component, socket>>, socket being <<>> for None and <<s>> for the string s
parse_connection_name(connection) ==
    IF \E i \in 1..Len(connection) : connection[i] = "."
    THEN LET dot == CHOOSE i \in 1..Len(connection) :
                        connection[i] = "." /\ \A j \in 1..(i - 1) : connection[j] # "."
         IN  << SubSeq(connection, 1, dot - 1),
                << SubSeq(connection, dot + 1, Len(connection)) >> >>
    ELSE << connection, <<>> >>

------------------------------------------------------------------------------
(* Discovery of the pipeline's inputs and outputs *)

\* [socket for socket in input_sockets.values() if not socket.taken_by]
UntakenSockets(sockets) == SelectSeq(sockets, LAMBDA socket : socket.taken_by = "")

\* find_pipeline_inputs leaving out the nodes without disconnected input sockets
find_pipeline_inputs_skipping_empty(nodes) ==
    [node \in {n \in DOMAIN nodes : UntakenSockets(nodes[n].input_sockets) # <<>>} |->
        UntakenSockets(nodes[node].input_sockets)]

\* node -> list of its input sockets that no component feeds
find_pipeline_inputs(nodes) ==
    [node \in DOMAIN nodes |-> UntakenSockets(nodes[node].input_sockets)]

\* the outgoing edges that lead to another node
out_edges_ignoring_self_loops(edges, node) ==
    {e \in edges : e.from_node = node /\ e.to_node # node}

\* graph.out_edges(node)
out_edges(edges, node) == {e \in edges : e.from_node = node}

\* the nodes find_pipeline_outputs keeps: those without any outgoing edge
OutputNodes(nodes, edges) == {node \in DOMAIN nodes : out_edges(edges, node) = {}}

\* node -> list of all its output sockets, for the nodes without outgoing edges
find_pipeline_outputs(nodes, edges) ==
    [node \in OutputNodes(nodes, edges) |-> nodes[node].output_sockets]

------------------------------------------------------------------------------
(* Pipeline.connect and Pipeline.add_component *)

\* the graph edge of a connection
Edge(from_node, to_node, pair) ==
    [from_node |-> from_node, to_node |-> to_node, key |-> <<pair[1].name, pair[2].name>>]

\* the input sockets of a node with the socket called name marked as taken by from_node
TakeSocket(sockets, name, from_node) ==
    [i \in 1..Len(sockets) |->
        IF sockets[i].name = name THEN [sockets[i] EXCEPT !.taken_by = from_node] ELSE sockets[i]]

\* the outcome of connect(connect_from, connect_to) on the graph: kind of the outcome,
\* the two nodes and the chosen pair of sockets
connect(nodes, connect_from, connect_to) ==
    LET parsed_from == parse_connection_name(connect_from)
        parsed_to == parse_connection_name(connect_to)
        from_node == JoinStr(parsed_from[1])
        to_node == JoinStr(parsed_to[1])
        from_socket_name == IF parsed_from[2] = <<>> THEN "" ELSE JoinStr(parsed_from[2][1])
        to_socket_name == IF parsed_to[2] = <<>> THEN "" ELSE JoinStr(parsed_to[2][1])
        failed(kind) == [kind |-> kind, from_node |-> from_node, to_node |-> to_node, pair |-> <<>>]
    IN  IF from_node \notin DOMAIN nodes \/ to_node \notin DOMAIN nodes
        THEN failed("unknown_component")
        ELSE LET all_from == nodes[from_node].output_sockets
                 all_to == nodes[to_node].input_sockets
             IN  IF \/ from_socket_name # "" /\ from_socket_name \notin SocketNames(all_from)
                    \/ to_socket_name # "" /\ to_socket_name \notin SocketNames(all_to)
                 THEN failed("unknown_socket")
                 ELSE LET from_sockets == IF from_socket_name # ""
                                          THEN <<SocketNamed(all_from, from_socket_name)>>
                                          ELSE all_from
                          to_sockets == IF to_socket_name # ""
                                        THEN <<SocketNamed(all_to, to_socket_name)>>
                                        ELSE all_to
                          found == find_unambiguous_connection(from_node, to_node,
                                                               from_sockets, to_sockets)
                      IN  [kind |-> found.kind, from_node |-> from_node, to_node |-> to_node,
                           pair |-> found.pair]

------------------------------------------------------------------------------
(* validate_pipeline_input.  input_values maps a component name to its      *)
(* ComponentInput, itself a map from field name (names()) to value.  The    *)
(* order in which a dict of input values is iterated is the caller's: where *)
(* it decides which error is raised, every order is allowed.                *)

Failure(kind, node, socket, by, unknown, input_values) ==
    [kind |-> kind, node |-> node, socket |-> socket, by |-> by, unknown |-> unknown,
     values |-> input_values]

Success(input_values) ==
    [kind |-> "ok", node |-> "", socket |-> "", by |-> "", unknown |-> {},
     values |-> input_values]

\* counting only the disconnected sockets that have no default
NoPipelineInputs_ignoring_defaults(nodes) ==
    ~ \E node \in DOMAIN nodes :
        \E socket \in Range(find_pipeline_inputs(nodes)[node]) :
            socket.name \notin nodes[node].instance.defaults

\* not any(sockets for sockets in find_pipeline_inputs(graph).values())
NoPipelineInputs(nodes) ==
    ~ \E node \in DOMAIN nodes : find_pipeline_inputs(nodes)[node] # <<>>

\* keeping one unknown key only
unknown_components_first_only(nodes, input_values) ==
    LET unknown == {key \in DOMAIN input_values : key \notin DOMAIN nodes}
    IN  IF unknown = {} THEN {} ELSE {CHOOSE key \in unknown : TRUE}

\* [key for key in input_values.keys() if not key in graph.nodes]
unknown_components(nodes, input_values) ==
    {key \in DOMAIN input_values : key \notin DOMAIN nodes}

\* the test without its look at the defaults of the node
InputMissing_ignoring_defaults(nodes, input_values, node, socket) ==
    \/ node \notin DOMAIN input_values
    \/ socket.name \notin DOMAIN input_values[node]

\* the test of _validate_input_sockets_are_connected on one disconnected socket
InputMissing(nodes, input_values, node, socket) ==
    LET input_in_node_defaults == socket.name \in nodes[node].instance.defaults
    IN  /\ ~ input_in_node_defaults
        /\ \/ node \notin DOMAIN input_values
           \/ socket.name \notin DOMAIN input_values[node]

\* _validate_input_sockets_are_connected: <<>> when it passes, else <<node, socket name>> of
\* the first disconnected socket, in the order of the nodes and of their sockets, that
\* has neither a default nor a value
_validate_input_sockets_are_connected(nodes, order, input_values) ==
    LET valid_inputs == find_pipeline_inputs(nodes)
        NodeMissing(node) ==
            \E i \in 1..Len(valid_inputs[node]) :
                InputMissing(nodes, input_values, node, valid_inputs[node][i])
        n == FirstIndex([i \in 1..Len(order) |-> NodeMissing(order[i])])
    IN  IF n = 0
        THEN <<>>
        ELSE LET node == order[n]
                 SocketMissing(socket) == InputMissing(nodes, input_values, node, socket)
                 k == FirstIndex([i \in 1..Len(valid_inputs[node]) |->
                                     SocketMissing(valid_inputs[node][i])])
             IN  <<node, valid_inputs[node][k].name>>

\* exclusivity per component: a value for any socket of a node that has a taken socket
EntryErrors_per_component(nodes, input_values, node, socket_name) ==
    IF ~ Truthy(input_values[node][socket_name])
    THEN {}
    ELSE IF socket_name \notin SocketNames(nodes[node].input_sockets)
    THEN {Failure("unexpected_input", node, socket_name, "", {}, input_values)}
    ELSE LET taken == {t \in Range(nodes[node].input_sockets) : t.taken_by # ""}
         IN  IF taken # {}
             THEN {Failure("input_conflict", node, socket_name,
                           (CHOOSE t \in taken : TRUE).taken_by, {}, input_values)}
             ELSE {}

\* the body of the loops of _validate_nodes_receive_only_expected_input on one entry:
\* the error it raises there, as a set (empty when the entry passes)
EntryErrors(nodes, input_values, node, socket_name) ==
    IF ~ Truthy(input_values[node][socket_name])
    THEN {}
    ELSE IF socket_name \notin SocketNames(nodes[node].input_sockets)
    THEN {Failure("unexpected_input", node, socket_name, "", {}, input_values)}
    ELSE LET taken_by == SocketNamed(nodes[node].input_sockets, socket_name).taken_by
         IN  IF taken_by # ""
             THEN {Failure("input_conflict", node, socket_name, taken_by, {}, input_values)}
             ELSE {}

\* _validate_nodes_receive_only_expected_input: the errors it can raise, one per
\* offending entry (the one met first is raised); empty when it passes
_validate_nodes_receive_only_expected_input(nodes, input_values) ==
    UNION {UNION {EntryErrors(nodes, input_values, node, socket_name) :
                     socket_name \in DOMAIN input_values[node]} :
              node \in DOMAIN input_values}

\* wrapping whatever the value is
NormalizeValue_always_wrapping(value) == Wrap(value)

\* the loop that makes variadic input components receive lists
NormalizeValue(value) == IF ~ IsIterable(value) THEN Wrap(value) ELSE value

NormalizeVariadic(nodes, input_values) ==
    [component \in DOMAIN input_values |->
        IF component \in DOMAIN nodes /\ nodes[component].variadic_input
        THEN [key \in DOMAIN input_values[component] |->
                 NormalizeValue(input_values[component][key])]
        ELSE input_values[component]]

\* the normalization loop run before the checks instead of after them
validate_pipeline_input_normalizing_first(nodes, order, input_values) ==
    LET normalized == NormalizeVariadic(nodes, input_values)
    IN  IF NoPipelineInputs(nodes)
        THEN {Failure("no_inputs", "", "", "", {}, normalized)}
        ELSE IF unknown_components(nodes, normalized) # {}
        THEN {Failure("unknown_component", "", "", "",
                      unknown_components(nodes, normalized), normalized)}
        ELSE LET missing == _validate_input_sockets_are_connected(nodes, order, normalized)
             IN  IF missing # <<>>
                 THEN {Failure("missing_input", missing[1], missing[2], "", {}, normalized)}
                 ELSE IF _validate_nodes_receive_only_expected_input(nodes, normalized) # {}
                 THEN _validate_nodes_receive_only_expected_input(nodes, normalized)
                 ELSE {Success(normalized)}

\* the check of the supplied entries run before the check of the missing inputs, and
\* the check of the component keys before the check that the pipeline has inputs
validate_pipeline_input_reordered(nodes, order, input_values) ==
    IF unknown_components(nodes, input_values) # {}
    THEN {Failure("unknown_component", "", "", "",
                  unknown_components(nodes, input_values), input_values)}
    ELSE IF NoPipelineInputs(nodes)
    THEN {Failure("no_inputs", "", "", "", {}, input_values)}
    ELSE IF _validate_nodes_receive_only_expected_input(nodes, input_values) # {}
    THEN _validate_nodes_receive_only_expected_input(nodes, input_values)
    ELSE LET missing == _validate_input_sockets_are_connected(nodes, order, input_values)
         IN  IF missing # <<>>
             THEN {Failure("missing_input", missing[1], missing[2], "", {}, input_values)}
             ELSE {Success(NormalizeVariadic(nodes, input_values))}

\* the outcomes of validate_pipeline_input(graph, input_values): the error raised, or
\* "ok" with the returned input values; on an error the caller's map is as it was
validate_pipeline_input(nodes, order, input_values) ==
    IF NoPipelineInputs(nodes)
    THEN {Failure("no_inputs", "", "", "", {}, input_values)}
    ELSE IF unknown_components(nodes, input_values) # {}
    THEN {Failure("unknown_component", "", "", "",
                  unknown_components(nodes, input_values), input_values)}
    ELSE LET missing == _validate_input_sockets_are_connected(nodes, order, input_values)
         IN  IF missing # <<>>
             THEN {Failure("missing_input", missing[1], missing[2], "", {}, input_values)}
             ELSE IF _validate_nodes_receive_only_expected_input(nodes, input_values) # {}
             THEN _validate_nodes_receive_only_expected_input(nodes, input_values)
             ELSE {Success(NormalizeVariadic(nodes, input_values))}

------------------------------------------------------------------------------
(* Inputs of the operations *)

\* the strings passed to connect: "component" and "component.socket"
ConnectionStrings(side) ==
    {<<c>> : c \in Range(ComponentNames)}
    \cup UNION {{<<c, ".", s>> : s \in SocketNames(Catalogue[c][side])} :
                   c \in Range(ComponentNames)}

\* the (component, field) keys an input map may hold: the declared input sockets and one
\* field that is no input socket of its component
InputKeys ==
    UNION {{<<c, s>> : s \in SocketNames(Catalogue[c].input_sockets)} :
              c \in Range(ComponentNames)}
    \cup {<<"add_one", "bogus">>}

\* from a flat map (component, field) -> value to the dict of ComponentInput
InputMap(flat) ==
    [c \in {k[1] : k \in DOMAIN flat} |->
        [s \in {k[2] : k \in {q \in DOMAIN flat : q[1] = c}} |-> flat[<<c, s>>]]]

InputMaps ==
    {InputMap(flat) :
        flat \in UNION {[K -> Values] : K \in {S \in SUBSET InputKeys : Cardinality(S) <= MaxEntries}}}

------------------------------------------------------------------------------
(* The pipeline as a state machine *)

NoCall == [kind |-> "none", pair |-> <<>>]
NoOp == [name |-> "none"]

Init ==
    /\ graph_nodes = [c \in {} |-> AddFixedValue]
    /\ node_order = <<>>
    /\ graph_edges = {}
    /\ op = NoOp
    /\ pc = "idle"
    /\ args = <<>>
    /\ ret = NoCall

\* Pipeline.add_component(name, instance)
AddComponent(c) ==
    /\ pc = "idle" /\ pc' = "returned"
    /\ c \notin DOMAIN graph_nodes
    /\ \A n \in DOMAIN graph_nodes : IndexOf(n) < IndexOf(c)
    /\ graph_nodes' = [n \in DOMAIN graph_nodes \cup {c} |->
                          IF n = c THEN Catalogue[c] ELSE graph_nodes[n]]
    /\ node_order' = Append(node_order, c)
    /\ op' = [name |-> "add_component", component |-> c]
    /\ UNCHANGED <<graph_edges, args, ret>>

\* Pipeline.connect(connect_from, connect_to)
\* a connect that refuses an output socket that already feeds an input socket
Connect_single_consumer(connect_from, connect_to) ==
    LET found == connect(graph_nodes, connect_from, connect_to)
        outcome == IF /\ found.kind = "ok"
                      /\ \E e \in graph_edges : /\ e.from_node = found.from_node
                                                 /\ e.key[1] = found.pair[1].name
                   THEN [found EXCEPT !.kind = "no_match"]
                   ELSE found
    IN  /\ pc = "idle" /\ pc' = "returned"
        /\ op' = [name |-> "connect", connect_from |-> connect_from, connect_to |-> connect_to,
                  kind |-> outcome.kind, from_node |-> outcome.from_node,
                  to_node |-> outcome.to_node, pair |-> outcome.pair]
        /\ IF outcome.kind = "ok"
           THEN /\ graph_nodes' =
                      [graph_nodes EXCEPT ![outcome.to_node].input_sockets =
                          TakeSocket(@, outcome.pair[2].name, outcome.from_node)]
                /\ graph_edges' =
                      graph_edges \cup {Edge(outcome.from_node, outcome.to_node, outcome.pair)}
           ELSE UNCHANGED <<graph_nodes, graph_edges>>
        /\ UNCHANGED <<node_order, args, ret>>

\* a best-effort connect: when the match is ambiguous it still marks the first untaken
\* input socket of the target as taken before it raises
Connect_best_effort(connect_from, connect_to) ==
    LET outcome == connect(graph_nodes, connect_from, connect_to)
    IN  /\ pc = "idle" /\ pc' = "returned"
        /\ op' = [name |-> "connect", connect_from |-> connect_from, connect_to |-> connect_to,
                  kind |-> outcome.kind, from_node |-> outcome.from_node,
                  to_node |-> outcome.to_node, pair |-> outcome.pair]
        /\ IF outcome.kind = "ok"
           THEN /\ graph_nodes' =
                      [graph_nodes EXCEPT ![outcome.to_node].input_sockets =
                          TakeSocket(@, outcome.pair[2].name, outcome.from_node)]
                /\ graph_edges' =
                      graph_edges \cup {Edge(outcome.from_node, outcome.to_node, outcome.pair)}
           ELSE IF outcome.kind = "ambiguous"
           THEN /\ graph_nodes' =
                      [graph_nodes EXCEPT ![outcome.to_node].input_sockets =
                          LET free == [i \in 1..Len(@) |-> @[i].taken_by = ""]
                          IN  TakeSocket(@, @[FirstIndex(free)].name, outcome.from_node)]
                /\ UNCHANGED graph_edges
           ELSE UNCHANGED <<graph_nodes, graph_edges>>
        /\ UNCHANGED <<node_order, args, ret>>

Connect(connect_from, connect_to) ==
    LET outcome == connect(graph_nodes, connect_from, connect_to)
    IN  /\ pc = "idle" /\ pc' = "returned"
        /\ op' = [name |-> "connect", connect_from |-> connect_from, connect_to |-> connect_to,
                  kind |-> outcome.kind, from_node |-> outcome.from_node,
                  to_node |-> outcome.to_node, pair |-> outcome.pair]
        /\ IF outcome.kind = "ok"
           THEN /\ graph_nodes' =
                      [graph_nodes EXCEPT ![outcome.to_node].input_sockets =
                          TakeSocket(@, outcome.pair[2].name, outcome.from_node)]
                /\ graph_edges' =
                      graph_edges \cup {Edge(outcome.from_node, outcome.to_node, outcome.pair)}
           ELSE UNCHANGED <<graph_nodes, graph_edges>>
        /\ UNCHANGED <<node_order, args, ret>>

\* a discovery that took the sockets out of the node data (data.pop) while listing them
FindPipelineInputs_popping_sockets ==
    /\ pc = "idle" /\ pc' = "returned"
    /\ op' = [name |-> "find_pipeline_inputs", result |-> find_pipeline_inputs(graph_nodes)]
    /\ graph_nodes' = [node \in DOMAIN graph_nodes |->
                          [graph_nodes[node] EXCEPT !.input_sockets = <<>>]]
    /\ UNCHANGED <<node_order, graph_edges, args, ret>>

FindPipelineInputs ==
    /\ pc = "idle" /\ pc' = "returned"
    /\ op' = [name |-> "find_pipeline_inputs", result |-> find_pipeline_inputs(graph_nodes)]
    /\ UNCHANGED <<graph_nodes, node_order, graph_edges, args, ret>>

FindPipelineOutputs ==
    /\ pc = "idle" /\ pc' = "returned"
    /\ op' = [name |-> "find_pipeline_outputs",
              result |-> find_pipeline_outputs(graph_nodes, graph_edges)]
    /\ UNCHANGED <<graph_nodes, node_order, graph_edges, args, ret>>

\* a validation that records on the sockets that they are fed by the pipeline input
ValidatePipelineInput_binding_sockets(input_values) ==
    /\ pc = "idle" /\ pc' = "returned"
    /\ Cardinality(graph_edges) <= MaxRunEdges
    /\ \E outcome \in validate_pipeline_input(graph_nodes, node_order, input_values) :
          /\ op' = [name |-> "validate_pipeline_input", input_values |-> input_values,
                    outcome |-> outcome]
          /\ graph_nodes' =
                IF outcome.kind # "ok"
                THEN graph_nodes
                ELSE [node \in DOMAIN graph_nodes |->
                        [graph_nodes[node] EXCEPT !.input_sockets =
                            [i \in 1..Len(@) |->
                                IF /\ node \in DOMAIN input_values
                                   /\ @[i].name \in DOMAIN input_values[node]
                                   /\ @[i].taken_by = ""
                                THEN [@[i] EXCEPT !.taken_by = "input"]
                                ELSE @[i]]]]
    /\ UNCHANGED <<node_order, graph_edges, args, ret>>

ValidatePipelineInput(input_values) ==
    /\ pc = "idle" /\ pc' = "returned"
    /\ Cardinality(graph_edges) <= MaxRunEdges
    /\ \E outcome \in validate_pipeline_input(graph_nodes, node_order, input_values) :
          op' = [name |-> "validate_pipeline_input", input_values |-> input_values,
                 outcome |-> outcome]
    /\ UNCHANGED <<graph_nodes, node_order, graph_edges, args, ret>>

\* the call has returned or raised: the builder goes on to its next call
Return ==
    /\ pc = "returned" /\ pc' = "idle"
    /\ op' = NoOp
    /\ UNCHANGED <<graph_nodes, node_order, graph_edges, args, ret>>

Next ==
    \/ \E c \in Range(ComponentNames) : AddComponent(c)
    \/ \E f \in ConnectionStrings("output_sockets"), t \in ConnectionStrings("input_sockets") :
          Connect(f, t)
    \/ FindPipelineInputs
    \/ FindPipelineOutputs
    \/ \E input_values \in InputMaps : ValidatePipelineInput(input_values)
    \/ Return

Spec == Init /\ [][Next]_vars

------------------------------------------------------------------------------
(* find_unambiguous_connection on its own: every list of candidate sockets  *)
(* of at most MaxSockets sockets with distinct names (the sockets of a      *)
(* component are the values of a dict keyed by name)                        *)

CandidateNames == {"left", "right", "value"}

DistinctNames(sockets) ==
    \A i, j \in 1..Len(sockets) : sockets[i].name = sockets[j].name => i = j

CandidateOutputs ==
    {l \in SeqsUpTo({OutputSocket(n, t) : n \in CandidateNames, t \in Types}, MaxSockets) :
        DistinctNames(l)}

CandidateInputs ==
    {l \in SeqsUpTo({InputSocket(n, t, by) : n \in CandidateNames, t \in Types,
                                              by \in {"", "other"}}, MaxSockets) :
        DistinctNames(l)}

InitFind ==
    /\ graph_nodes = [c \in {} |-> AddFixedValue]
    /\ node_order = <<>>
    /\ graph_edges = {}
    /\ op = NoOp
    /\ pc = "idle"
    /\ args \in {[from_sockets |-> f, to_sockets |-> t] :
                    f \in CandidateOutputs, t \in CandidateInputs}
    /\ ret = NoCall

CallFind ==
    /\ pc = "idle" /\ pc' = "returned"
    /\ ret' = find_unambiguous_connection("from", "to", args.from_sockets, args.to_sockets)
    /\ UNCHANGED <<graph_nodes, node_order, graph_edges, op, args>>

NextFind == CallFind

SpecFind == InitFind /\ [][NextFind]_vars

------------------------------------------------------------------------------
(* parse_connection_name on its own: every string of at most MaxStrLen       *)
(* characters over two letters and the separator                             *)

Characters == {"a", "b", "."}

ConnectionNames == SeqsUpTo(Characters, MaxStrLen)

InitParse ==
    /\ graph_nodes = [c \in {} |-> AddFixedValue]
    /\ node_order = <<>>
    /\ graph_edges = {}
    /\ op = NoOp
    /\ pc = "idle"
    /\ args \in ConnectionNames
    /\ ret = NoCall

CallParse ==
    /\ pc = "idle" /\ pc' = "returned"
    /\ ret' = parse_connection_name(args)
    /\ UNCHANGED <<graph_nodes, node_order, graph_edges, op, args>>

NextParse == CallParse

SpecParse == InitParse /\ [][NextParse]_vars

------------------------------------------------------------------------------
(* Properties of find_unambiguous_connection (SpecFind) *)

\* the (output, input) pairs of the candidates with an untaken input and equal types
PassingPairs(from_sockets, to_sockets) ==
    {pair \in Range(from_sockets) \X Range(to_sockets) :
        pair[2].taken_by = "" /\ pair[1].type = pair[2].type}

\* those of them whose two sockets have the same name
NameEqualPairs(from_sockets, to_sockets) ==
    {pair \in PassingPairs(from_sockets, to_sockets) : pair[1].name = pair[2].name}

\* C1: when more than one pair passes the filter and exactly one of them has equal
\* names, find_unambiguous_connection returns that name-equal pair.
C1_NameEqualPairReturned ==
    (/\ pc = "returned"
     /\ Cardinality(PassingPairs(args.from_sockets, args.to_sockets)) > 1
     /\ Cardinality(NameEqualPairs(args.from_sockets, args.to_sockets)) = 1)
    => /\ ret.kind = "ok"
       /\ ret.pair \in NameEqualPairs(args.from_sockets, args.to_sockets)

\* C10: find_unambiguous_connection fails with the No Match error, returning no pair,
\* exactly when no pair of the candidates has an untaken input and equal types.
C10_NoMatchIffNothingPasses ==
    pc = "returned" =>
        /\ (ret.kind = "no_match") <=> (PassingPairs(args.from_sockets, args.to_sockets) = {})
        /\ ret.kind = "no_match" => ret.pair = <<>>

\* C10 witness: No Match although a pair has equal types, its input being taken
C10_Witness ==
    /\ pc = "returned"
    /\ ret.kind = "no_match"
    /\ \E pair \in Range(args.from_sockets) \X Range(args.to_sockets) :
          pair[1].type = pair[2].type /\ pair[2].taken_by # ""

\* C11: find_unambiguous_connection fails with the Ambiguous error, which is not the
\* No Match error, whenever more than one pair passes the filter and the number of
\* those pairs with equal names is zero or at least two.
C11_AmbiguousUnlessOneNameMatch ==
    (/\ pc = "returned"
     /\ Cardinality(PassingPairs(args.from_sockets, args.to_sockets)) > 1
     /\ Cardinality(NameEqualPairs(args.from_sockets, args.to_sockets)) # 1)
    => /\ ret.kind = "ambiguous"
       /\ ret # ConnectErrorNoMatch
       /\ ret.pair = <<>>

\* C11 witness: outputs left:int, right:int against inputs left:int, right:int
C11_Witness ==
    /\ pc = "returned"
    /\ args.from_sockets = <<OutputSocket("left", "int"), OutputSocket("right", "int")>>
    /\ args.to_sockets = <<InputSocket("left", "int", ""), InputSocket("right", "int", "")>>
    /\ ret.kind = "ambiguous"

\* C12: find_unambiguous_connection returns the single surviving pair whenever exactly
\* one pair has an untaken input and equal types, whatever the names of its sockets
\* and whatever other candidates there are.
C12_SinglePairReturned ==
    (/\ pc = "returned"
     /\ Cardinality(PassingPairs(args.from_sockets, args.to_sockets)) = 1)
    => /\ ret.kind = "ok"
       /\ PassingPairs(args.from_sockets, args.to_sockets) = {ret.pair}

\* C12 witness: the pair returned has sockets of different names, among candidates
\* of another type and a taken input of the same type
C12_Witness ==
    /\ pc = "returned"
    /\ ret.kind = "ok"
    /\ ret.pair[1].name # ret.pair[2].name
    /\ \E out \in Range(args.from_sockets) : out.type # ret.pair[1].type
    /\ \E in \in Range(args.to_sockets) : in.type = ret.pair[1].type /\ in.taken_by # ""

------------------------------------------------------------------------------
(* Properties of connect (Spec) *)

\* the edges that end in the input socket socket_name of node
IncomingEdges(node, socket_name) ==
    {e \in graph_edges : e.to_node = node /\ e.key[2] = socket_name}

\* the input sockets connect(_, connect_to) chooses among
ToCandidates(nodes, connect_to) ==
    LET parsed == parse_connection_name(connect_to)
        node == JoinStr(parsed[1])
    IN  IF node \notin DOMAIN nodes
        THEN {}
        ELSE IF parsed[2] = <<>>
        THEN Range(nodes[node].input_sockets)
        ELSE {socket \in Range(nodes[node].input_sockets) : socket.name = JoinStr(parsed[2][1])}

C2_OneEdgePerTakenSocket ==
    \A node \in DOMAIN graph_nodes :
        \A socket \in Range(graph_nodes[node].input_sockets) :
            Cardinality(IncomingEdges(node, socket.name)) = IF socket.taken_by # "" THEN 1 ELSE 0

C2_ConnectToTakenFails ==
    (/\ pc = "idle"
     /\ op'.name = "connect"
     /\ ToCandidates(graph_nodes, op'.connect_to) # {}
     /\ \A socket \in ToCandidates(graph_nodes, op'.connect_to) : socket.taken_by # "")
    => /\ op'.kind # "ok"
       /\ UNCHANGED <<graph_nodes, graph_edges>>

C3_SuccessfulConnect ==
    (pc = "idle" /\ op'.name = "connect" /\ op'.kind = "ok")
    => LET source == op'.connect_from[1]
           target == op'.connect_to[1]
           edge == [from_node |-> source, to_node |-> target,
                    key |-> <<op'.pair[1].name, op'.pair[2].name>>]
       IN  /\ SocketNamed(graph_nodes'[target].input_sockets, op'.pair[2].name).taken_by = source
           /\ edge \notin graph_edges
           /\ graph_edges' = graph_edges \cup {edge}
           /\ Cardinality(graph_edges') = Cardinality(graph_edges) + 1

\* C3: after every successful connect the chosen input socket's taken_by is the name of
\* the source component, and the graph holds exactly one more edge than before: the
\* edge from the source to the target labelled with the chosen pair of sockets.
C3_ConnectTakesSocketAndAddsOneEdge == [][C3_SuccessfulConnect]_vars

\* C3 witness: a successful connect on a graph that already had an edge
C3_Witness ==
    /\ pc = "returned"
    /\ op.name = "connect"
    /\ op.kind = "ok"
    /\ Cardinality(graph_edges) >= 2
    /\ [from_node |-> op.from_node, to_node |-> op.to_node,
        key |-> <<op.pair[1].name, op.pair[2].name>>] \in graph_edges
    /\ SocketNamed(graph_nodes[op.to_node].input_sockets, op.pair[2].name).taken_by = op.from_node

------------------------------------------------------------------------------
(* Properties of validate_pipeline_input (Spec) *)

Validated == pc = "returned" /\ op.name = "validate_pipeline_input"

\* the (component, socket) entries of an input map
Entries(input_values) ==
    UNION {{<<c, s>> : s \in DOMAIN input_values[c]} : c \in DOMAIN input_values}

\* the declared input socket s of component c
DeclaredInput(c, s) ==
    /\ c \in DOMAIN graph_nodes
    /\ \E socket \in Range(graph_nodes[c].input_sockets) : socket.name = s

\* the component that feeds input socket s of c through an edge, "" when none does
TakenBy(c, s) ==
    (CHOOSE socket \in Range(graph_nodes[c].input_sockets) : socket.name = s).taken_by

\* the entries of an input map that name an input socket fed by an edge
FedEntries(input_values) ==
    {e \in Entries(input_values) : DeclaredInput(e[1], e[2]) /\ TakenBy(e[1], e[2]) # ""}

\* C4: if the map supplies a value for an input socket whose taken_by is non-empty and
\* the other checks pass, validation fails with the Input Conflict error naming the
\* component, the socket and the supplying component, whatever the value is; after a
\* successful validation no input socket is both fed by an edge and present in the map.
C4_ConflictWhateverTheValue ==
    Validated =>
        /\ (/\ FedEntries(op.input_values) # {}
            /\ op.outcome.kind \notin {"no_inputs", "unknown_component", "missing_input",
                                       "unexpected_input"})
           => /\ op.outcome.kind = "input_conflict"
              /\ <<op.outcome.node, op.outcome.socket>> \in FedEntries(op.input_values)
              /\ op.outcome.by = TakenBy(op.outcome.node, op.outcome.socket)
        /\ op.outcome.kind = "ok" => FedEntries(op.outcome.values) = {}

\* the disconnected input sockets without a default and without a value in the map
MissingSockets(input_values) ==
    UNION {{<<c, socket.name>> :
               socket \in {t \in Range(graph_nodes[c].input_sockets) :
                              /\ t.taken_by = ""
                              /\ t.name \notin graph_nodes[c].instance.defaults
                              /\ <<c, t.name>> \notin Entries(input_values)}} :
              c \in DOMAIN graph_nodes}

\* C5 as stated: validation fails with the Missing Required Input error naming
\* component.socket whenever some input socket is disconnected, has no default and has
\* no entry in the map; a disconnected socket with a default never causes the error.
C5_MissingInputAlwaysRaised ==
    Validated =>
        /\ MissingSockets(op.input_values) # {} => op.outcome.kind = "missing_input"
        /\ op.outcome.kind = "missing_input"
              => <<op.outcome.node, op.outcome.socket>> \in MissingSockets(op.input_values)

\* C5 amended: the same, for the input maps whose component keys are all nodes of the
\* graph (a map with an unknown component key fails with the Unknown Component error).
C5_MissingInputRaisedForKnownComponents ==
    Validated =>
        /\ (/\ DOMAIN op.input_values \subseteq DOMAIN graph_nodes
            /\ MissingSockets(op.input_values) # {})
           => op.outcome.kind = "missing_input"
        /\ op.outcome.kind = "missing_input"
              => <<op.outcome.node, op.outcome.socket>> \in MissingSockets(op.input_values)

\* C5 witness: Missing Required Input raised for add_one.value while add_one.add, which
\* has a default, is disconnected and has no value either
C5_Witness ==
    /\ Validated
    /\ op.outcome.kind = "missing_input"
    /\ op.outcome.node = "add_one" /\ op.outcome.socket = "value"
    /\ DeclaredInput("add_one", "add") /\ TakenBy("add_one", "add") = ""
    /\ <<"add_one", "add">> \notin Entries(op.input_values)
    /\ op.input_values # <<>>

\* the entries of an input map that belong to a component flagged variadic
VariadicEntries(input_values) ==
    {e \in Entries(input_values) : e[1] \in DOMAIN graph_nodes /\ graph_nodes[e[1]].variadic_input}

\* C6: a string supplied to a variadic component is, after a successful validation, a
\* one-element list holding the whole string: not the bare string, not its characters.
C6_StringWrappedWhole ==
    (Validated /\ op.outcome.kind = "ok") =>
        \A e \in VariadicEntries(op.input_values) :
            op.input_values[e[1]][e[2]].kind = "str"
                => op.outcome.values[e[1]][e[2]] =
                      [kind |-> "list", atom |-> "", elems |-> <<op.input_values[e[1]][e[2]]>>]

C7_ListUnchangedReached ==
    /\ Validated
    /\ op.outcome.kind = "ok"
    /\ "sum" \in DOMAIN op.input_values
    /\ "values" \in DOMAIN op.input_values["sum"]
    /\ op.input_values["sum"]["values"].kind = "list"
    /\ op.outcome.values["sum"]["values"] = op.input_values["sum"]["values"]

\* the entries of an input map whose field is no declared input socket of a node
UndeclaredEntries(input_values) ==
    {e \in Entries(input_values) : e[1] \in DOMAIN graph_nodes /\ ~ DeclaredInput(e[1], e[2])}

\* C13: if the map has an entry for a socket name that is not a declared input socket
\* of its component and the other checks pass, validation fails with the Unexpected
\* Input Key error, whatever the value is; after a successful validation every entry
\* of the map names a component of the graph and a declared input socket of it.
C13_UnexpectedKeyWhateverTheValue ==
    Validated =>
        /\ (/\ UndeclaredEntries(op.input_values) # {}
            /\ op.outcome.kind \notin {"no_inputs", "unknown_component", "missing_input",
                                       "input_conflict"})
           => /\ op.outcome.kind = "unexpected_input"
              /\ <<op.outcome.node, op.outcome.socket>> \in UndeclaredEntries(op.input_values)
        /\ op.outcome.kind = "ok"
              => \A e \in Entries(op.outcome.values) : DeclaredInput(e[1], e[2])

\* some input socket of the graph is disconnected
SomeInputDisconnected ==
    \E c \in DOMAIN graph_nodes :
        \E socket \in Range(graph_nodes[c].input_sockets) : socket.taken_by = ""

\* C14: validation fails with the Unknown Component error, naming every unknown key,
\* whenever the graph has a disconnected input socket and the map has a component key
\* that is not a node of the graph.
C14_UnknownComponentsNamed ==
    (/\ Validated
     /\ SomeInputDisconnected
     /\ DOMAIN op.input_values \ DOMAIN graph_nodes # {})
    => /\ op.outcome.kind = "unknown_component"
       /\ op.outcome.unknown = DOMAIN op.input_values \ DOMAIN graph_nodes

\* C14 witness: two unknown keys are named
C14_Witness ==
    /\ Validated
    /\ op.outcome.kind = "unknown_component"
    /\ Cardinality(op.outcome.unknown) = 2
    /\ op.outcome.unknown \cap DOMAIN graph_nodes = {}
    /\ graph_nodes # <<>>

\* C15: validation fails with the No Pipeline Inputs error, for every input map,
\* whenever no component of the graph has an input socket with empty taken_by, and
\* only then: disconnected sockets with defaults count as inputs.
C15_NoInputsIffNothingDisconnected ==
    Validated => ((op.outcome.kind = "no_inputs") <=> ~ SomeInputDisconnected)

\* C15 witness: No Pipeline Inputs on a graph whose only input socket is fed by an
\* edge, for a non-empty input map
C15_Witness ==
    /\ Validated
    /\ op.outcome.kind = "no_inputs"
    /\ graph_edges # {}
    /\ op.input_values # <<>>

\* C15 also reached: the empty graph, and a graph of components without input sockets
C15_EmptyGraphReached ==
    Validated /\ op.outcome.kind = "no_inputs" /\ graph_nodes = <<>>

C15_NoInputSocketsReached ==
    Validated /\ op.outcome.kind = "no_inputs" /\ DOMAIN graph_nodes = {"source"}

------------------------------------------------------------------------------
(* Properties of the discovery of inputs and outputs (Spec) *)

\* the (component, socket name) pairs of a result of find_pipeline_inputs / _outputs
Listed(result) ==
    UNION {{<<c, result[c][i].name>> : i \in 1..Len(result[c])} : c \in DOMAIN result}

\* the output sockets that feed no input socket
UnconnectedOutputs ==
    UNION {{<<c, socket.name>> :
               socket \in {t \in Range(graph_nodes[c].output_sockets) :
                              ~ \E e \in graph_edges : e.from_node = c /\ e.key[1] = t.name}} :
              c \in DOMAIN graph_nodes}

\* C8: find_pipeline_outputs reports exactly the (component, output socket) pairs that
\* have no downstream edge, the unconnected output sockets of a component whose other
\* output sockets are connected included.
C8_OutputsAreUnconnectedSockets ==
    (pc = "returned" /\ op.name = "find_pipeline_outputs")
        => Listed(op.result) = UnconnectedOutputs

\* C9: find_pipeline_inputs returns one key per component of the graph, mapped to
\* exactly the list of that component's input sockets with empty taken_by, in their
\* order, sockets with defaults included.
C9_InputsPerComponent ==
    (pc = "returned" /\ op.name = "find_pipeline_inputs") =>
        /\ DOMAIN op.result = DOMAIN graph_nodes
        /\ \A c \in DOMAIN graph_nodes :
              LET sockets == graph_nodes[c].input_sockets
                  Untaken == {i \in 1..Len(sockets) : sockets[i].taken_by = ""}
                  listed == op.result[c]
              IN  /\ Len(listed) = Cardinality(Untaken)
                  /\ \A k \in 1..Len(listed) :
                        \E i \in Untaken :
                            /\ listed[k] = sockets[i]
                            /\ Cardinality({j \in Untaken : j < i}) = k - 1

\* C9 witness: a component without input sockets and one with all inputs taken are
\* mapped to the empty list, and a disconnected socket with a default is listed
C9_Witness ==
    /\ pc = "returned" /\ op.name = "find_pipeline_inputs"
    /\ "source" \in DOMAIN op.result /\ op.result["source"] = <<>>
    /\ "parity" \in DOMAIN op.result /\ op.result["parity"] = <<>>
    /\ "add_one" \in DOMAIN op.result
    /\ op.result["add_one"] = <<InputSocket("add", "int", "")>>

\* a step in which find_pipeline_inputs or find_pipeline_outputs is called
DiscoveryStep ==
    /\ pc = "idle" /\ pc' = "returned"
    /\ op'.name \in {"find_pipeline_inputs", "find_pipeline_outputs"}

\* C16: find_pipeline_inputs and find_pipeline_outputs leave the nodes, the edges and
\* every taken_by as they were, and the same call made again on the graph they leave
\* behind returns the result they returned.
C16_DiscoveryLeavesGraphAndRepeats ==
    [][DiscoveryStep =>
          /\ UNCHANGED <<graph_nodes, node_order, graph_edges>>
          /\ op'.name = "find_pipeline_inputs" => op'.result = find_pipeline_inputs(graph_nodes')
          /\ op'.name = "find_pipeline_outputs"
                => op'.result = find_pipeline_outputs(graph_nodes', graph_edges')]_vars

\* C16 witness: inputs discovered on a graph with an edge, a taken socket and a
\* disconnected one
C16_Witness ==
    /\ pc = "returned" /\ op.name = "find_pipeline_inputs"
    /\ graph_edges # {}
    /\ \E node \in DOMAIN op.result : op.result[node] # <<>>
    /\ \E node \in DOMAIN graph_nodes :
          \E socket \in Range(graph_nodes[node].input_sockets) : socket.taken_by # ""

\* C16 also reached: outputs discovered on a graph with an edge
C16_OutputsReached ==
    /\ pc = "returned" /\ op.name = "find_pipeline_outputs"
    /\ graph_edges # {}
    /\ \E node \in DOMAIN op.result : op.result[node] # <<>>

\* C17: validating again the map returned by a successful validation, on the same
\* graph, succeeds and returns the same map: no value is wrapped a second time.
C17_ValidationIdempotent ==
    (Validated /\ op.outcome.kind = "ok")
    => validate_pipeline_input(graph_nodes, node_order, op.outcome.values)
          = {Success(op.outcome.values)}

------------------------------------------------------------------------------
(* Properties of parse_connection_name (SpecParse) *)

\* the positions of the separator in a string
Dots(connection) == {i \in 1..Len(connection) : connection[i] = "."}

\* C18: for every string s, if s contains '.', parse_connection_name returns the part
\* before the first '.' and everything after it, further dots kept, so that component
\* + '.' + socket is s; otherwise it returns s and no socket.
C18_SplitAtFirstDot ==
    pc = "returned" =>
        IF Dots(args) # {}
        THEN /\ Len(ret[2]) = 1
             /\ Dots(ret[1]) = {}
             /\ JoinStr(ret[1]) \o "." \o JoinStr(ret[2][1]) = JoinStr(args)
             /\ ret[1] \o <<".">> \o ret[2][1] = args
             /\ Cardinality(Dots(ret[2][1])) = Cardinality(Dots(args)) - 1
        ELSE ret = <<args, <<>> >>

\* C18 witness: a string with two separators is split, the second one kept in the socket
C18_Witness ==
    /\ pc = "returned"
    /\ args = <<"a", ".", "b", ".">>
    /\ ret = << <<"a">>, << <<"b", ".">> >> >>

\* C18 also reached: a string without separator
C18_NoDotReached ==
    pc = "returned" /\ args = <<"a", "b">> /\ ret = << <<"a", "b">>, <<>> >>

------------------------------------------------------------------------------
(* Fan-out and the permanence of taken_by (Spec) *)

\* the edges that leave the output socket socket_name of node
OutgoingEdges(edges, node, socket_name) ==
    {e \in edges : e.from_node = node /\ e.key[1] = socket_name}

\* a connect call that names both sockets, "component.socket" on either side
ExplicitConnect(connect_from, connect_to) ==
    /\ Len(connect_from) = 3 /\ connect_from[2] = "."
    /\ Len(connect_to) = 3 /\ connect_to[2] = "."

\* connect(connect_from, connect_to) names an output socket of the graph that already
\* feeds an input socket, and an untaken input socket of the same type
FanOutCall(connect_from, connect_to) ==
    /\ ExplicitConnect(connect_from, connect_to)
    /\ connect_from[1] \in DOMAIN graph_nodes
    /\ connect_to[1] \in DOMAIN graph_nodes
    /\ connect_from[3] \in SocketNames(graph_nodes[connect_from[1]].output_sockets)
    /\ connect_to[3] \in SocketNames(graph_nodes[connect_to[1]].input_sockets)
    /\ OutgoingEdges(graph_edges, connect_from[1], connect_from[3]) # {}
    /\ LET out == SocketNamed(graph_nodes[connect_from[1]].output_sockets, connect_from[3])
           in == SocketNamed(graph_nodes[connect_to[1]].input_sockets, connect_to[3])
       IN  in.taken_by = "" /\ in.type = out.type

C19_FanOutStep ==
    (/\ pc = "idle"
     /\ op'.name = "connect"
     /\ FanOutCall(op'.connect_from, op'.connect_to))
    => LET source == op'.connect_from[1]
           output == op'.connect_from[3]
       IN  /\ op'.kind = "ok"
           /\ op'.pair[1].name = output /\ op'.pair[2].name = op'.connect_to[3]
           /\ OutgoingEdges(graph_edges, source, output)
                 \subseteq OutgoingEdges(graph_edges', source, output)
           /\ Cardinality(OutgoingEdges(graph_edges', source, output))
                 = Cardinality(OutgoingEdges(graph_edges, source, output)) + 1

\* C19: after an output socket has been connected to one input socket, a later connect
\* of the same output socket to a different, untaken input socket of the same type
\* succeeds and adds an edge: having consumers never makes an output socket unavailable.
C19_FanOutPermitted == [][C19_FanOutStep]_vars

\* C19 witness: add_one.result feeds two input sockets after the second connect
C19_Witness ==
    /\ pc = "returned"
    /\ op.name = "connect" /\ op.kind = "ok"
    /\ ExplicitConnect(op.connect_from, op.connect_to)
    /\ op.connect_from[1] = "add_one"
    /\ Cardinality(OutgoingEdges(graph_edges, "add_one", "result")) = 2

C20_TakenByKept ==
    \A node \in DOMAIN graph_nodes :
        \A i \in 1..Len(graph_nodes[node].input_sockets) :
            graph_nodes[node].input_sockets[i].taken_by # ""
            => /\ node \in DOMAIN graph_nodes'
               /\ Len(graph_nodes'[node].input_sockets) = Len(graph_nodes[node].input_sockets)
               /\ graph_nodes'[node].input_sockets[i] = graph_nodes[node].input_sockets[i]

\* C20: over any sequence of operations an input socket's taken_by, once non-empty, is
\* never emptied and never changed to another component.
C20_TakenByNeverReset == [][C20_TakenByKept]_vars

\* C20 witness: parity.value is taken by add_one, and a connect of sum to parity has
\* been attempted since
C20_Witness ==
    /\ pc = "returned"
    /\ op.name = "connect"
    /\ op.connect_from[1] = "sum" /\ op.connect_to[1] = "parity"
    /\ op.kind = "no_match"
    /\ "parity" \in DOMAIN graph_nodes
    /\ SocketNamed(graph_nodes["parity"].input_sockets, "value").taken_by = "add_one"

\* C20 also reached: a validation and a discovery on a graph with a taken socket
C20_ValidationReached ==
    /\ Validated
    /\ \E node \in DOMAIN graph_nodes :
          \E socket \in Range(graph_nodes[node].input_sockets) : socket.taken_by # ""

------------------------------------------------------------------------------
(* Failed connects and per-socket exclusivity (Spec) *)

C21_FailedConnectStep ==
    (pc = "idle" /\ op'.name = "connect" /\ op'.kind # "ok")
    => /\ op'.pair = <<>>
       /\ UNCHANGED <<graph_nodes, node_order, graph_edges>>

\* C21: a connect that fails (No Match or Ambiguous, or an unknown name) leaves the
\* graph exactly as it was: no taken_by is set and no edge is added.
C21_FailedConnectLeavesGraph == [][C21_FailedConnectStep]_vars

\* C21 witness: an ambiguous connect of parity (even, odd) to add_one (value, add) on a
\* graph that has an edge, none of the four sockets' taken_by being set by it
C21_Witness ==
    /\ pc = "returned"
    /\ op.name = "connect" /\ op.kind = "ambiguous"
    /\ op.connect_from = <<"parity">> /\ op.connect_to = <<"add_one">>
    /\ graph_edges # {}
    /\ \A socket \in Range(graph_nodes["add_one"].input_sockets) : socket.taken_by = ""

\* C21 also reached: a connect failing with No Match
C21_NoMatchReached ==
    pc = "returned" /\ op.name = "connect" /\ op.kind = "no_match" /\ graph_edges = {}

\* the components with an input socket fed by an edge and another one that is not
HalfFed ==
    {c \in DOMAIN graph_nodes :
        /\ \E t \in Range(graph_nodes[c].input_sockets) : t.taken_by # ""
        /\ \E t \in Range(graph_nodes[c].input_sockets) : t.taken_by = ""}

------------------------------------------------------------------------------
(* Several outputs into one input socket of a variadic component (Spec) *)

\* connect(connect_from, connect_to) names an output socket and a type-equal input
\* socket of a component that accepts variadic input, the input socket being fed
\* already by another output socket
VariadicFanInCall(connect_from, connect_to) ==
    /\ ExplicitConnect(connect_from, connect_to)
    /\ connect_from[1] \in DOMAIN graph_nodes
    /\ connect_to[1] \in DOMAIN graph_nodes
    /\ connect_from[3] \in SocketNames(graph_nodes[connect_from[1]].output_sockets)
    /\ connect_to[3] \in SocketNames(graph_nodes[connect_to[1]].input_sockets)
    /\ graph_nodes[connect_to[1]].variadic_input
    /\ IncomingEdges(connect_to[1], connect_to[3]) # {}
    /\ \A e \in IncomingEdges(connect_to[1], connect_to[3]) :
          <<e.from_node, e.key[1]>> # <<connect_from[1], connect_from[3]>>
    /\ LET out == SocketNamed(graph_nodes[connect_from[1]].output_sockets, connect_from[3])
           in == SocketNamed(graph_nodes[connect_to[1]].input_sockets, connect_to[3])
       IN  in.type = out.type

C23_VariadicFanInStep ==
    (/\ pc = "idle"
     /\ op'.name = "connect"
     /\ VariadicFanInCall(op'.connect_from, op'.connect_to))
    => /\ op'.kind = "ok"
       /\ Cardinality(graph_edges') = Cardinality(graph_edges) + 1

\* C23: after one output has been connected to an input socket of a component that
\* accepts variadic input, connecting another type-equal output to the same input
\* socket succeeds as well.
C23_VariadicFanInPermitted == [][C23_VariadicFanInStep]_vars

------------------------------------------------------------------------------
(* Outputs per component (Spec) *)

\* the components some edge leaves, a self-loop included
Sources == {e.from_node : e \in graph_edges}

------------------------------------------------------------------------------
(* Types of the two ends of an edge (Spec) *)

\* the declared types of the output socket and of the input socket an edge joins
EdgeTypes(e) ==
    << SocketNamed(graph_nodes[e.from_node].output_sockets, e.key[1]).type,
       SocketNamed(graph_nodes[e.to_node].input_sockets, e.key[2]).type >>

C25_EdgesJoinEqualTypes ==
    \A e \in graph_edges :
        /\ e.from_node \in DOMAIN graph_nodes /\ e.to_node \in DOMAIN graph_nodes
        /\ e.key[1] \in SocketNames(graph_nodes[e.from_node].output_sockets)
        /\ e.key[2] \in SocketNames(graph_nodes[e.to_node].input_sockets)
        /\ EdgeTypes(e)[1] = EdgeTypes(e)[2]

C25_NewEdgeOntoUntakenSocket ==
    \A e \in graph_edges' \ graph_edges :
        SocketNamed(graph_nodes[e.to_node].input_sockets, e.key[2]).taken_by = ""

\* C25: in every state reached by connect operations every edge joins an output socket
\* and an input socket whose declared types are identical, and the input socket was
\* untaken when the edge was made.
C25_EdgesWellTyped ==
    [] C25_EdgesJoinEqualTypes /\ [][C25_NewEdgeOntoUntakenSocket]_vars

\* C25 witness: a graph with the str output of source and two edges, both between int
\* sockets, the second just made
C25_Witness ==
    /\ pc = "returned"
    /\ op.name = "connect" /\ op.kind = "ok"
    /\ "source" \in DOMAIN graph_nodes
    /\ Cardinality(graph_edges) = 2
    /\ \A e \in graph_edges : EdgeTypes(e) = <<"int", "int">>

\* C25 also reached: the connect of the str output of source to an int input fails
C25_MismatchReached ==
    /\ pc = "returned"
    /\ op.name = "connect" /\ op.kind = "no_match"
    /\ op.connect_from = <<"source">> /\ op.connect_to = <<"parity">>
    /\ graph_edges = {}

------------------------------------------------------------------------------
(* What a validation leaves behind (Spec) *)

\* C26: when validate_pipeline_input fails with any of its errors, the caller's input
\* map is exactly as supplied: no value has been wrapped into a list.
C26_FailureLeavesMap ==
    (Validated /\ op.outcome.kind # "ok") => op.outcome.values = op.input_values

\* C26 witness: Missing Required Input raised for a map that holds a scalar for the
\* variadic sum.values, which is still the scalar
C26_Witness ==
    /\ Validated
    /\ op.outcome.kind = "missing_input"
    /\ "sum" \in DOMAIN graph_nodes
    /\ "sum" \in DOMAIN op.input_values
    /\ op.input_values["sum"] = [values |-> IntV("5")]
    /\ op.outcome.values["sum"]["values"] = IntV("5")

\* C26 also reached: Input Conflict raised for a scalar given to sum.values
C26_ConflictReached ==
    /\ Validated
    /\ op.outcome.kind = "input_conflict"
    /\ op.outcome.node = "sum"
    /\ op.outcome.values["sum"]["values"] = IntV("5")

C27_ValidationStep ==
    (pc = "idle" /\ op'.name = "validate_pipeline_input")
    => UNCHANGED <<graph_nodes, node_order, graph_edges>>

\* C27: validate_pipeline_input, whether it succeeds or fails, leaves the graph
\* unchanged: no node, edge, socket or taken_by is modified; only the input map is.
C27_ValidationLeavesGraph == [][C27_ValidationStep]_vars

\* C27 witness: a successful validation on a graph with an edge that has wrapped a
\* value of the map
C27_Witness ==
    /\ Validated
    /\ op.outcome.kind = "ok"
    /\ graph_edges # {}
    /\ op.outcome.values # op.input_values

\* C27 also reached: a failed validation on a graph with an edge
C27_FailureReached ==
    Validated /\ op.outcome.kind = "input_conflict" /\ graph_edges # {}

------------------------------------------------------------------------------
(* Order of the checks of validate_pipeline_input (Spec) *)

\* the keys of an input map that are no node of the graph
UnknownKeys(input_values) == DOMAIN input_values \ DOMAIN graph_nodes

\* the first of the first three checks that fails on the map, "" when all three pass
FirstFailingCheck(input_values) ==
    IF ~ SomeInputDisconnected THEN "no_inputs"
    ELSE IF UnknownKeys(input_values) # {} THEN "unknown_component"
    ELSE IF MissingSockets(input_values) # {} THEN "missing_input"
    ELSE ""

\* C28: validate_pipeline_input applies its checks in the order No Pipeline Inputs,
\* Unknown Component, Missing Required Input, then Unexpected Input Key / Input
\* Conflict, and raises the error of the first check that fails.
C28_ChecksInOrder ==
    Validated =>
        IF FirstFailingCheck(op.input_values) # ""
        THEN op.outcome.kind = FirstFailingCheck(op.input_values)
        ELSE op.outcome.kind \in {"unexpected_input", "input_conflict", "ok"}

\* C28 witness: a map that lacks a required input and supplies a non-zero value to an
\* edge-fed socket yields Missing Required Input
C28_Witness ==
    /\ Validated
    /\ op.outcome.kind = "missing_input"
    /\ \E e \in FedEntries(op.input_values) : Truthy(op.input_values[e[1]][e[2]])

\* C28 also reached: a map with an unknown component key on a graph without
\* disconnected inputs yields No Pipeline Inputs
C28_NoInputsBeforeUnknownReached ==
    /\ Validated
    /\ op.outcome.kind = "no_inputs"
    /\ graph_nodes # <<>>
    /\ UnknownKeys(op.input_values) # {}

\* C28 also reached: an unknown key beside a missing input yields Unknown Component,
\* and the last check fails once the first three pass
C28_UnknownBeforeMissingReached ==
    /\ Validated
    /\ op.outcome.kind = "unknown_component"
    /\ MissingSockets(op.input_values) # {}

C28_LastCheckReached ==
    /\ Validated
    /\ op.outcome.kind = "input_conflict"
    /\ FirstFailingCheck(op.input_values) = ""

------------------------------------------------------------------------------
(* Discovery and validation after a connect (Spec) *)

\* a step in which connect succeeds
ConnectSucceeds == pc = "idle" /\ op'.name = "connect" /\ op'.kind = "ok"

\* the input maps with a value for input socket s of component b that pass validation
\* on the graph
ValidMapsFeeding(nodes, order, b, s) ==
    {input_values \in InputMaps :
        /\ b \in DOMAIN input_values
        /\ s \in DOMAIN input_values[b]
        /\ \A outcome \in validate_pipeline_input(nodes, order, input_values) :
              outcome.kind = "ok"}

\* after a successful connect from A to B.s, find_pipeline_inputs no longer lists s
\* under B and find_pipeline_outputs has no entry for A
C29_DiscoveryAfterConnect ==
    ConnectSucceeds =>
        /\ op'.pair[2].name \notin SocketNames(find_pipeline_inputs(graph_nodes')[op'.to_node])
        /\ op'.pair[2].name \in SocketNames(find_pipeline_inputs(graph_nodes)[op'.to_node])
        /\ op'.from_node \notin DOMAIN find_pipeline_outputs(graph_nodes', graph_edges')

\* after it, on a graph that keeps a disconnected input socket (No Pipeline Inputs is
\* raised first otherwise), every input map with a value for B.s that validated before
\* the connect is rejected with Input Conflict
C29_ConflictAfterConnect ==
    (ConnectSucceeds /\ ~ NoPipelineInputs(graph_nodes')) =>
        \A input_values \in ValidMapsFeeding(graph_nodes, node_order,
                                               op'.to_node, op'.pair[2].name) :
            \A outcome \in validate_pipeline_input(graph_nodes', node_order', input_values) :
                /\ outcome.kind = "input_conflict"
                /\ outcome.node = op'.to_node /\ outcome.socket = op'.pair[2].name

\* C29: discovery and validation reflect the current graph: immediately after a
\* successful connect from A to input socket s of B, find_pipeline_inputs no longer
\* lists s under B, find_pipeline_outputs has no entry for A, and an input map with a
\* value for B.s that validated before the connect is rejected with Input Conflict
\* (the graph still having a disconnected input socket after the connect).
C29_CurrentGraphReflected ==
    [][C29_DiscoveryAfterConnect /\ C29_ConflictAfterConnect]_vars

\* the two discovery parts on their own
C29_DiscoveryReflectsConnect == [][C29_DiscoveryAfterConnect]_vars

\* the validation part for the values that are not falsy
C29_TruthyConflictAfterConnect ==
    [][ConnectSucceeds =>
          \A input_values \in ValidMapsFeeding(graph_nodes, node_order,
                                                 op'.to_node, op'.pair[2].name) :
              (/\ Truthy(input_values[op'.to_node][op'.pair[2].name])
               /\ ~ NoPipelineInputs(graph_nodes'))
              => \A outcome \in validate_pipeline_input(graph_nodes', node_order',
                                                          input_values) :
                    /\ outcome.kind = "input_conflict"
                    /\ outcome.node = op'.to_node
                    /\ outcome.socket = op'.pair[2].name]_vars

------------------------------------------------------------------------------
(* Order of the candidate lists (SpecFind) *)

\* the lists that hold the elements of a list of distinct sockets in some order
Reorderings(sockets) ==
    {p \in [1..Len(sockets) -> Range(sockets)] : Range(p) = Range(sockets)}

\* C30: the outcome of find_unambiguous_connection, the pair returned or the error
\* raised, does not depend on the order in which the candidate sockets are listed: a
\* call on permutations of the two lists gives the same outcome.
C30_OrderIndependent ==
    pc = "returned" =>
        \A from_sockets \in Reorderings(args.from_sockets),
           to_sockets \in Reorderings(args.to_sockets) :
            find_unambiguous_connection("from", "to", from_sockets, to_sockets) = ret

\* the same for the calls where the name tie-break does not single out a pair among
\* several
C30_OrderIndependentWithoutTieBreak ==
    (/\ pc = "returned"
     /\ ~ (/\ Cardinality(PassingPairs(args.from_sockets, args.to_sockets)) > 1
           /\ Cardinality(NameEqualPairs(args.from_sockets, args.to_sockets)) = 1))
    => \A from_sockets \in Reorderings(args.from_sockets),
          to_sockets \in Reorderings(args.to_sockets) :
           find_unambiguous_connection("from", "to", from_sockets, to_sockets) = ret

====
